---- MODULE Spec2Model ----
(***************************************************************************)
(* polium: the offline asset rewriter of src/polium/core.py                *)
(* (_rewrite_external_assets, _embed_inline_assets, PoliumMap.save), the   *)
(* gap scan and the radii of src/demo_ais_dark_zone.py, the range ring     *)
(* (_geodesic_circle), the drawing calls of PoliumMap, and the asset       *)
(* downloader src/fetch_map_assets.py.                                     *)
(*                                                                         *)
(* Text is a sequence of tokens.  Every token IS the Python string it      *)
(* stands for, so a text denotes the concatenation of its tokens and all   *)
(* offsets below are character offsets of that concatenation (TokenLen     *)
(* gives each token's len()).  The tokens are chosen so that every literal *)
(* the code searches for ('<script', '</script>', '<link', '>', a quote,   *)
(* 'http://', the prefixes and suffixes of the CDN patterns) occurs only   *)
(* where a token says so, never across a token boundary.                   *)
(***************************************************************************)
EXTENDS Integers, Sequences, FiniteSets, TLC

VARIABLES
   doc,      \* the rendered HTML handed to the rewriter (to_html())
   cfg,      \* the arguments of the call and the file system it runs against
   html,     \* the local variable html
   pc,       \* where the call is
   key,      \* position of the loop over _CDN_PATTERNS.items() (inline mode)
   pending,  \* reversed(matches) not yet processed (inline mode)
   out,      \* the output file of save()
   err,      \* the exception raised, if any
   snap,     \* the text finditer ran on (inline mode); the first result (two passes)
   last,     \* what the last step did
   times,    \* demo_ais_dark_zone: df["time"].to_list(), minutes after the first fix
   sog,      \* demo_ais_dark_zone: the column sog_kn, in tenths of a knot
   gap_threshold,          \* minutes
   idx,                    \* the loop variable i of the gap scan
   gap_idx,                \* None, or the index i of the gap (0-based)
   gap_dur,                \* t_after - t_before, minutes
   radius_conservative_m,  \* a rational number of meters
   radius_max_m,           \* a rational number of meters
   has_pyproj,  \* _HAS_PYPROJ
   center,      \* _geodesic_circle: the arguments lon, lat
   radius_m,    \* _geodesic_circle: the argument radius_m
   seg_n,       \* _geodesic_circle: the argument n
   az,          \* _geodesic_circle: the local a, a rational number of degrees
   coords,      \* _geodesic_circle: the list coords
   has_h3,      \* _HAS_H3
   map_center,  \* PoliumMap.center, None when no center was passed
   location,    \* PoliumMap._map.location
   layers,      \* what has been added to PoliumMap._map after the tile layer, in order
   args,        \* the arguments of the PoliumMap method that is called
   files,       \* fetch_map_assets: the content of each destination file
   force,       \* fetch_map_assets: args.force
   nrun,        \* fetch_map_assets: how many times the script has been started
   pos,         \* fetch_map_assets: the 1-based position of main's loop in the plan
   failures,    \* fetch_map_assets: the list failures of main
   msg,         \* fetch_map_assets: the last line download() gave main to print
   rc           \* fetch_map_assets: the exit status of the last run

\* the variables of the asset rewriter, of the gap script, of the ring, of
\* the map wrapper and of the asset downloader
rewriterVars == <<doc, cfg, html, key, pending, out, snap>>
gapVars ==
   <<times, sog, gap_threshold, idx, gap_idx, gap_dur, radius_conservative_m, radius_max_m>>
ringVars == <<has_pyproj, center, radius_m, seg_n, az, coords>>
mapVars == <<has_h3, map_center, location, layers, args>>
fetchVars == <<files, force, nrun, pos, failures, msg, rc>>

vars ==
   <<doc, cfg, html, pc, key, pending, out, err, snap, last, gapVars, ringVars, mapVars,
     fetchVars>>

\* None of Python: told apart from every index, instant and count, all >= 0
None == -1

\* a component that is not running
GapIdle ==
   /\ times = <<>> /\ sog = <<>> /\ gap_threshold = 0 /\ idx = 0 /\ gap_idx = None
   /\ gap_dur = None /\ radius_conservative_m = None /\ radius_max_m = None
RingIdle ==
   /\ has_pyproj = TRUE /\ center = None /\ radius_m = 0 /\ seg_n = 0 /\ az = None
   /\ coords = <<>>
MapIdle ==
   /\ has_h3 = TRUE /\ map_center = None /\ location = None /\ layers = <<>>
   /\ args = None
FetchIdle ==
   /\ files = <<>> /\ force = FALSE /\ nrun = 0 /\ pos = 0 /\ failures = <<>>
   /\ msg = None /\ rc = None

(* ---------------------------- tokens ----------------------------------- *)

JS_SHORT == "a=1"
JS_LONG == "var L=function(){return{version:1,map:function(e){return e},tileLayer:function(u){return u}}}();"
CSS_SHORT == "b{}"
CSS_LONG == ".leaflet-container{overflow:hidden;background:#ddd;outline:0;font-size:12px;line-height:1.5}"

LEAFLET_PRE == "https://cdn.jsdelivr.net/npm/leaflet@"
OSM_URL == "https://tile.openstreetmap.org/{z}/{x}/{y}.png"
EXT_URL == "https://example.com/x.js"
LOOP_URL == "http://127.0.0.1:8080/tiles/{z}/{x}/{y}.png"
LOOP_HTTPS_URL == "https://127.0.0.1:8080/x.js"
LOOKALIKE_URL == "http://localhost.example.com/x.js"

\* len() of every token that can occur in a text
TokenLen ==
   "<script" :> 7 @@
   "</script>" :> 9 @@
   "<link" :> 5 @@
   ">" :> 1 @@
   "\"" :> 1 @@
   "\n" :> 1 @@
   "<style" :> 6 @@
   "</style>" :> 8 @@
   "x" :> 1 @@
   "/" :> 1 @@
   "https://cdn.jsdelivr.net/npm/leaflet@" :> 37 @@
   "1.9.3" :> 5 @@
   "/dist/leaflet.js" :> 16 @@
   "/dist/leaflet.css" :> 17 @@
   "https://code.jquery.com/jquery-" :> 31 @@
   "3.7.1" :> 5 @@
   ".min.js" :> 7 @@
   "https://tile.openstreetmap.org/{z}/{x}/{y}.png" :> 46 @@
   "https://example.com/x.js" :> 24 @@
   "http://127.0.0.1:8080/tiles/{z}/{x}/{y}.png" :> 43 @@
   "https://127.0.0.1:8080/x.js" :> 27 @@
   "http://localhost.example.com/x.js" :> 33 @@
   "assets" :> 6 @@
   "assets\\leaflet.js" :> 17 @@
   "a=1" :> 3 @@
   "b{}" :> 3 @@
   "var L=function(){return{version:1,map:function(e){return e},tileLayer:function(u){return u}}}();" :> 96 @@
   ".leaflet-container{overflow:hidden;background:#ddd;outline:0;font-size:12px;line-height:1.5}" :> 92 @@
   "leaflet.js" :> 10 @@
   "leaflet.css" :> 11 @@
   "jquery-3.7.1.min.js" :> 19 @@
   "bootstrap.bundle.min.js" :> 23 @@
   "bootstrap.min.css" :> 17 @@
   "bootstrap-glyphicons.css" :> 24 @@
   "all.min.css" :> 11 @@
   "leaflet.awesome-markers.js" :> 26 @@
   "leaflet.awesome-markers.css" :> 27 @@
   "leaflet.awesome.rotate.min.css" :> 30 @@
   "leaflet.timedimension.min.js" :> 28 @@
   "leaflet.timedimension.control.css" :> 33 @@
   "moment.min.js" :> 13 @@
   "iso8601.min.js" :> 14 @@
   "leaflet-ant-path.min.js" :> 23

\* tokens that contain the character '/'
HasSlash ==
   { "</script>", "</style>", "/", "https://cdn.jsdelivr.net/npm/leaflet@",
     "/dist/leaflet.js", "/dist/leaflet.css", "https://code.jquery.com/jquery-",
     "https://tile.openstreetmap.org/{z}/{x}/{y}.png", "https://example.com/x.js",
     "http://127.0.0.1:8080/tiles/{z}/{x}/{y}.png", "https://127.0.0.1:8080/x.js",
     "http://localhost.example.com/x.js" }

\* tokens of the shape \d+\.\d+\.\d+
SemVer == { "1.9.3", "3.7.1" }

\* the quote characters of the verification regex
Quotes == { "\"", "'" }

\* tokens that begin with http:// or https://
HttpStart ==
   { "https://cdn.jsdelivr.net/npm/leaflet@", "https://code.jquery.com/jquery-",
     "https://tile.openstreetmap.org/{z}/{x}/{y}.png", "https://example.com/x.js",
     "http://127.0.0.1:8080/tiles/{z}/{x}/{y}.png", "https://127.0.0.1:8080/x.js",
     "http://localhost.example.com/x.js" }

\* tokens holding a backslash followed by a letter that is no regex-template escape
BadEscape == { "assets\\leaflet.js" }

(* ------------------------- character offsets --------------------------- *)

RECURSIVE TextLen(_)
\* len(text)
TextLen(t) == IF t = <<>> THEN 0 ELSE TokenLen[Head(t)] + TextLen(Tail(t))

\* offset of the first character of token i (0-based offset, 1-based i)
Off(t, i) == TextLen(SubSeq(t, 1, i - 1))

\* number of whole tokens in text[:c]; c is a token boundary when Off(t, n+1) = c
TokensBefore(t, c) ==
   Cardinality({ i \in 1..Len(t) : Off(t, i) + TokenLen[t[i]] <= c })

IsBoundary(t, c) == \E i \in 1..(Len(t) + 1) : Off(t, i) = c

\* text[:c] and text[c:] for an offset c on a token boundary
Upto(t, c) == SubSeq(t, 1, TokensBefore(t, c))
From(t, c) == SubSeq(t, TokensBefore(t, c) + 1, Len(t))

\* text[a:b] when both offsets are token boundaries, otherwise a marker that
\* equals no token sequence of a URL
Slice(t, a, b) ==
   IF a <= b /\ IsBoundary(t, a) /\ IsBoundary(t, b)
   THEN SubSeq(t, TokensBefore(t, a) + 1, TokensBefore(t, b))
   ELSE <<"?">>

\* where the literal sub occurs inside a token: token -> offset inside it
Inner(sub) ==
   CASE sub = "<script" -> ("<script" :> 0)
     [] sub = "</script>" -> ("</script>" :> 0)
     [] sub = "<link" -> ("<link" :> 0)
     [] sub = ">" -> (">" :> 0 @@ "</script>" :> 8 @@ "</style>" :> 7)

SubLen(sub) ==
   CASE sub = "<script" -> 7
     [] sub = "</script>" -> 9
     [] sub = "<link" -> 5
     [] sub = ">" -> 1

\* offsets at which the literal sub occurs in the text
Occurrences(t, sub) ==
   { Off(t, i) + Inner(sub)[t[i]] : i \in { j \in 1..Len(t) : t[j] \in DOMAIN Inner(sub) } }

Min(S) == CHOOSE x \in S : \A y \in S : x <= y
Max(S) == CHOOSE x \in S : \A y \in S : x >= y

\* str.find(sub, start): lowest offset >= start, or -1
find(t, sub, start) ==
   LET S == { o \in Occurrences(t, sub) : o >= start }
   IN IF S = {} THEN -1 ELSE Min(S)

\* str.rfind(sub, 0, end): highest offset with the occurrence inside text[0:end], or -1
rfind(t, sub, end) ==
   LET S == { o \in Occurrences(t, sub) : o + SubLen(sub) <= end }
   IN IF S = {} THEN -1 ELSE Max(S)

(* --------------------------- CDN patterns ------------------------------ *)

\* iteration order of the _CDN_PATTERNS dict
Keys ==
   << "leaflet_js", "leaflet_css", "jquery_js", "bootstrap_js", "bootstrap_css",
      "bootstrap_glyphicons_css", "fa_css", "awesomemarkers_js", "awesomemarkers_css",
      "awesomemarkers_rotate_css", "timedimension_js", "timedimension_css",
      "moment_js", "iso8601_js", "antpath_js", "osm_tiles" >>

KeySet == { Keys[i] : i \in 1..Len(Keys) }

\* one alternative of a pattern: literal prefix, middle class, literal suffix
\* mid: "nonslash" is [^/]+, "semver" is \d+\.\d+\.\d+, "none" is a pure literal
Alt(pre, mid, suf) == [pre |-> pre, mid |-> mid, suf |-> suf]

CDN_PATTERNS ==
   [ k \in KeySet |->
     CASE k = "leaflet_js" ->
            { Alt("https://cdn.jsdelivr.net/npm/leaflet@", "nonslash", "/dist/leaflet.js"),
              Alt("https://cdn.jsdelivr.net/npm/leaflet@", "nonslash", "/dist/leaflet.min.js") }
       [] k = "leaflet_css" ->
            { Alt("https://cdn.jsdelivr.net/npm/leaflet@", "nonslash", "/dist/leaflet.css"),
              Alt("https://cdn.jsdelivr.net/npm/leaflet@", "nonslash", "/dist/leaflet.min.css") }
       [] k = "jquery_js" ->
            { Alt("https://code.jquery.com/jquery-", "semver", ".min.js") }
       [] k = "bootstrap_js" ->
            { Alt("https://cdn.jsdelivr.net/npm/bootstrap@", "nonslash", "/dist/js/bootstrap.bundle.min.js") }
       [] k = "bootstrap_css" ->
            { Alt("https://cdn.jsdelivr.net/npm/bootstrap@", "nonslash", "/dist/css/bootstrap.min.css") }
       [] k = "bootstrap_glyphicons_css" ->
            { Alt("https://netdna.bootstrapcdn.com/bootstrap/", "semver", "/css/bootstrap-glyphicons.css"),
              Alt("http://netdna.bootstrapcdn.com/bootstrap/", "semver", "/css/bootstrap-glyphicons.css") }
       [] k = "fa_css" ->
            { Alt("https://cdn.jsdelivr.net/npm/@fortawesome/fontawesome-free@", "nonslash", "/css/all.min.css") }
       [] k = "awesomemarkers_js" ->
            { Alt("https://cdnjs.cloudflare.com/ajax/libs/Leaflet.awesome-markers/", "semver", "/leaflet.awesome-markers.js") }
       [] k = "awesomemarkers_css" ->
            { Alt("https://cdnjs.cloudflare.com/ajax/libs/Leaflet.awesome-markers/", "semver", "/leaflet.awesome-markers.css") }
       [] k = "awesomemarkers_rotate_css" ->
            { Alt("https://cdn.jsdelivr.net/gh/python-visualization/folium/folium/templates/leaflet.awesome.rotate.min.css", "none", "") }
       [] k = "timedimension_js" ->
            { Alt("https://cdn.jsdelivr.net/npm/leaflet-timedimension@", "nonslash", "/dist/leaflet.timedimension.js"),
              Alt("https://cdn.jsdelivr.net/npm/leaflet-timedimension@", "nonslash", "/dist/leaflet.timedimension.min.js") }
       [] k = "timedimension_css" ->
            { Alt("https://cdn.jsdelivr.net/npm/leaflet-timedimension@", "nonslash", "/dist/leaflet.timedimension.control.css"),
              Alt("https://cdn.jsdelivr.net/npm/leaflet-timedimension@", "nonslash", "/dist/leaflet.timedimension.control.min.css") }
       [] k = "moment_js" ->
            { Alt("https://cdnjs.cloudflare.com/ajax/libs/moment.js/", "semver", "/moment.min.js"),
              Alt("https://cdn.jsdelivr.net/npm/moment@", "nonslash", "/min/moment.min.js") }
       [] k = "iso8601_js" ->
            { Alt("https://cdn.jsdelivr.net/npm/iso8601-js-period@", "nonslash", "/iso8601.js"),
              Alt("https://cdn.jsdelivr.net/npm/iso8601-js-period@", "nonslash", "/iso8601.min.js") }
       [] k = "antpath_js" ->
            { Alt("https://cdn.jsdelivr.net/npm/leaflet-ant-path@", "nonslash", "/dist/leaflet-ant-path.js"),
              Alt("https://cdn.jsdelivr.net/npm/leaflet-ant-path@", "nonslash", "/dist/leaflet-ant-path.min.js") }
       [] k = "osm_tiles" ->
            { Alt("https://tile.openstreetmap.org/{z}/{x}/{y}.png", "none", "") } ]

\* index of the last token of a match of alternative a that starts at token i, 0 if none
MatchEnd(t, i, a) ==
   CASE a.mid = "none" -> IF t[i] = a.pre THEN i ELSE 0
     [] a.mid = "semver" ->
          IF i + 2 <= Len(t) /\ t[i] = a.pre /\ t[i + 1] \in SemVer /\ t[i + 2] = a.suf
          THEN i + 2 ELSE 0
     [] a.mid = "nonslash" ->
          IF t[i] # a.pre THEN 0
          ELSE LET stops == { j \in (i + 1)..Len(t) : t[j] \in HasSlash }
               IN IF stops = {} THEN 0
                  ELSE IF Min(stops) >= i + 2 /\ t[Min(stops)] = a.suf
                       THEN Min(stops) ELSE 0

\* pat.match at token i for the pattern of key k
PatternEnd(t, i, k) == Max({0} \cup { MatchEnd(t, i, a) : a \in CDN_PATTERNS[k] })

RECURSIVE FindFrom(_, _, _)
\* leftmost, non-overlapping matches from token i on
FindFrom(k, t, i) ==
   IF i > Len(t) THEN <<>>
   ELSE IF PatternEnd(t, i, k) > 0
        THEN << [start |-> Off(t, i), end |-> Off(t, PatternEnd(t, i, k) + 1),
                 url |-> SubSeq(t, i, PatternEnd(t, i, k))] >>
             \o FindFrom(k, t, PatternEnd(t, i, k) + 1)
        ELSE FindFrom(k, t, i + 1)

\* list(pat.finditer(html)): match objects in document order
finditer(k, t) == FindFrom(k, t, 1)

RECURSIVE SubFrom(_, _, _, _)
SubFrom(k, repl, t, i) ==
   IF i > Len(t) THEN <<>>
   ELSE IF PatternEnd(t, i, k) > 0
        THEN repl \o SubFrom(k, repl, t, PatternEnd(t, i, k) + 1)
        ELSE <<t[i]>> \o SubFrom(k, repl, t, i + 1)

\* re.sub compiles a string replacement as a template: an unknown backslash
\* escape raises re.error, whether or not the pattern matches anywhere
TemplateError(repl) == \E i \in 1..Len(repl) : repl[i] \in BadEscape

\* pat.sub(repl, html) for a template without escapes
sub(k, repl, t) == SubFrom(k, repl, t, 1)

(* ------------------------- resolution table ---------------------------- *)

\* the standard filenames assumed under assets_dir
DefaultName ==
   "leaflet_js" :> "leaflet.js" @@
   "leaflet_css" :> "leaflet.css" @@
   "jquery_js" :> "jquery-3.7.1.min.js" @@
   "bootstrap_js" :> "bootstrap.bundle.min.js" @@
   "bootstrap_css" :> "bootstrap.min.css" @@
   "bootstrap_glyphicons_css" :> "bootstrap-glyphicons.css" @@
   "fa_css" :> "all.min.css" @@
   "awesomemarkers_js" :> "leaflet.awesome-markers.js" @@
   "awesomemarkers_css" :> "leaflet.awesome-markers.css" @@
   "awesomemarkers_rotate_css" :> "leaflet.awesome.rotate.min.css" @@
   "timedimension_js" :> "leaflet.timedimension.min.js" @@
   "timedimension_css" :> "leaflet.timedimension.control.css" @@
   "moment_js" :> "moment.min.js" @@
   "iso8601_js" :> "iso8601.min.js" @@
   "antpath_js" :> "leaflet-ant-path.min.js"

\* str(Path(assets_dir) / name) for a plain relative directory name
PathJoin(base, name) == <<base, "/", name>>

\* replacements.get(key) after lines 88-114 (147-173 in inline mode);
\* <<>> stands for None; assets_dir "" and an empty assets_map stand for None
Configured(k, assets_dir, extra_map) ==
   IF k \in DOMAIN extra_map THEN extra_map[k]
   ELSE IF assets_dir # "" /\ k \in DOMAIN DefaultName THEN PathJoin(assets_dir, DefaultName[k])
   ELSE <<>>

(* ---------------------- reference mode rewriting ----------------------- *)

\* replacements.get(key) in _rewrite_external_assets, tiles entry included
RefReplacement(k, assets_dir, extra_map, tiles_fallback) ==
   IF k = "osm_tiles" /\ tiles_fallback # <<>> THEN tiles_fallback
   ELSE Configured(k, assets_dir, extra_map)

RECURSIVE RewriteFrom(_, _, _, _, _)
\* the substitution loop from key number n on; [raised, html]
RewriteFrom(t, n, assets_dir, extra_map, tiles_fallback) ==
   IF n > Len(Keys) THEN [raised |-> FALSE, html |-> t]
   ELSE LET local == RefReplacement(Keys[n], assets_dir, extra_map, tiles_fallback)
        IN IF local = <<>>
           THEN RewriteFrom(t, n + 1, assets_dir, extra_map, tiles_fallback)
           ELSE IF TemplateError(local)
                THEN [raised |-> TRUE, html |-> t]
                ELSE RewriteFrom(sub(Keys[n], local, t), n + 1, assets_dir, extra_map, tiles_fallback)

rewrite_external_assets(t, assets_dir, extra_map, tiles_fallback) ==
   RewriteFrom(t, 1, assets_dir, extra_map, tiles_fallback)

(* ------------------------ inline mode embedding ------------------------ *)

\* keys with key.endswith("_js") and key.endswith("_css")
JsKeys ==
   { "leaflet_js", "jquery_js", "bootstrap_js", "awesomemarkers_js",
     "timedimension_js", "moment_js", "iso8601_js", "antpath_js" }

CssKeys ==
   { "leaflet_css", "bootstrap_css", "bootstrap_glyphicons_css", "fa_css",
     "awesomemarkers_css", "awesomemarkers_rotate_css", "timedimension_css" }

\* f"<script>\n{content}\n</script>" and f"<style>\n{content}\n</style>"
inline_content(k, content) ==
   IF k \in JsKeys
   THEN <<"<script", ">", "\n">> \o content \o <<"\n", "</script>">>
   ELSE <<"<style", ">", "\n">> \o content \o <<"\n", "</style>">>

\* the tag-open and tag-close literals searched for around a match
OpenLit(k) == IF k \in JsKeys THEN "<script" ELSE "<link"
CloseLit(k) == IF k \in JsKeys THEN "</script>" ELSE ">"

\* EmbedOne with a missing tag-close literal taken as the end of the text
EmbedOneToEnd(t, k, m, inl) ==
   LET tag_start == rfind(t, OpenLit(k), m.start)
       tag_end == find(t, CloseLit(k), m.end)
   IN IF tag_start = -1 THEN [html |-> t, what |-> "no_open"]
      ELSE IF tag_end = -1 THEN [html |-> Upto(t, tag_start) \o inl, what |-> "replaced"]
      ELSE [html |-> Upto(t, tag_start) \o inl \o From(t, tag_end + SubLen(CloseLit(k))),
            what |-> "replaced"]

\* body of the loop over reversed(matches) for one match m: the new text and
\* what happened ("no_open" and "no_close" are the two continue statements)
EmbedOne(t, k, m, inl) ==
   LET tag_start == rfind(t, OpenLit(k), m.start)
       tag_end == find(t, CloseLit(k), m.end)
   IN IF tag_start = -1 THEN [html |-> t, what |-> "no_open"]
      ELSE IF tag_end = -1 THEN [html |-> t, what |-> "no_close"]
      ELSE [html |-> Upto(t, tag_start) \o inl \o From(t, tag_end + SubLen(CloseLit(k))),
            what |-> "replaced"]

RECURSIVE Reverse(_)
Reverse(s) == IF s = <<>> THEN <<>> ELSE Reverse(Tail(s)) \o <<Head(s)>>

RECURSIVE EmbedMatches(_, _, _, _)
\* the whole loop over reversed(matches); ms is already reversed
EmbedMatches(t, k, ms, inl) ==
   IF ms = <<>> THEN t
   ELSE EmbedMatches(EmbedOne(t, k, Head(ms), inl).html, k, Tail(ms), inl)

\* one file of the file system: readable with a text, or unreadable
File(text) == [ok |-> TRUE, text |-> text]
Unreadable == [ok |-> FALSE, text |-> <<>>]

\* what one iteration of "for key, pat in _CDN_PATTERNS.items()" decides
\* before it looks for matches
KeyOutcome(k, assets_dir, extra_map, fs) ==
   IF k = "osm_tiles" THEN "tiles_key"
   ELSE IF Configured(k, assets_dir, extra_map) = <<>> THEN "no_path"
   ELSE IF Configured(k, assets_dir, extra_map) \notin DOMAIN fs THEN "missing"
   ELSE IF ~fs[Configured(k, assets_dir, extra_map)].ok THEN "unreadable"
   ELSE IF k \in JsKeys \cup CssKeys THEN "embed"
   ELSE "other_suffix"

\* EmbedKey without the asset_path.exists() test: a missing file is inlined
\* as an empty block
EmbedKeyInliningMissing(t, k, assets_dir, extra_map, fs) ==
   IF KeyOutcome(k, assets_dir, extra_map, fs) = "embed"
   THEN EmbedMatches(t, k, Reverse(finditer(k, t)),
                     inline_content(k, fs[Configured(k, assets_dir, extra_map)].text))
   ELSE IF KeyOutcome(k, assets_dir, extra_map, fs) = "missing"
        THEN EmbedMatches(t, k, Reverse(finditer(k, t)), inline_content(k, <<>>))
        ELSE t

\* the text after the whole iteration for key k
EmbedKey(t, k, assets_dir, extra_map, fs) ==
   IF KeyOutcome(k, assets_dir, extra_map, fs) = "embed"
   THEN EmbedMatches(t, k, Reverse(finditer(k, t)),
                     inline_content(k, fs[Configured(k, assets_dir, extra_map)].text))
   ELSE t

RECURSIVE EmbedFrom(_, _, _, _, _)
EmbedFrom(t, n, assets_dir, extra_map, fs) ==
   IF n > Len(Keys) THEN t
   ELSE EmbedFrom(EmbedKey(t, Keys[n], assets_dir, extra_map, fs), n + 1, assets_dir, extra_map, fs)

\* EmbedTilesText with the tile substitution left out
EmbedTilesTextSkipped(t, tiles_fallback) ==
   [raised |-> FALSE, html |-> t]

\* lines 176-177: the tile URL is substituted first, outside the try block
EmbedTilesText(t, tiles_fallback) ==
   IF tiles_fallback = <<>> THEN [raised |-> FALSE, html |-> t]
   ELSE IF TemplateError(tiles_fallback) THEN [raised |-> TRUE, html |-> t]
   ELSE [raised |-> FALSE, html |-> sub("osm_tiles", tiles_fallback, t)]

embed_inline_assets(t, assets_dir, extra_map, tiles_fallback, fs) ==
   IF EmbedTilesText(t, tiles_fallback).raised
   THEN [raised |-> TRUE, html |-> t]
   ELSE [raised |-> FALSE,
         html |-> EmbedFrom(EmbedTilesText(t, tiles_fallback).html, 1, assets_dir, extra_map, fs)]

(* --------------------------- save and verify --------------------------- *)

RECURSIVE UrlLiterals(_, _)
\* re.findall(r"""["'](https?://[^"']+)["']""", html) from token i on
UrlLiterals(t, i) ==
   IF i > Len(t) THEN <<>>
   ELSE IF t[i] \in Quotes /\ i + 1 <= Len(t) /\ t[i + 1] \in HttpStart
             /\ { j \in (i + 2)..Len(t) : t[j] \in Quotes } # {}
        THEN << SubSeq(t, i + 1, Min({ j \in (i + 2)..Len(t) : t[j] \in Quotes }) - 1) >>
             \o UrlLiterals(t, Min({ j \in (i + 2)..Len(t) : t[j] \in Quotes }) + 1)
        ELSE UrlLiterals(t, i + 1)

\* tokens u with u.startswith("http://127.0.0.1") or u.startswith("http://localhost")
LoopbackPrefixed == { "http://127.0.0.1:8080/tiles/{z}/{x}/{y}.png", "http://localhost.example.com/x.js" }

IsExternalCall(u) == Head(u) \notin LoopbackPrefixed

\* the list external_calls of save()
external_calls(t) == SelectSeq(UrlLiterals(t, 1), IsExternalCall)

NoError == [type |-> "none", urls |-> <<>>]
NoFile == [exists |-> FALSE, text |-> <<>>]

\* lines 686-703: render, then rewrite when offline assets are asked for
SaveRewritten(d, c) ==
   IF c.assets_dir # "" \/ DOMAIN c.assets_map # {}
   THEN IF c.embed_assets
        THEN embed_inline_assets(d, c.assets_dir, c.assets_map, c.tiles, c.fs)
        ELSE rewrite_external_assets(d, c.assets_dir, c.assets_map, c.tiles)
   ELSE [raised |-> FALSE, html |-> d]

\* save that writes the file before it verifies the text
save_writing_first(d, c, old) ==
   LET r == SaveRewritten(d, c)
   IN IF r.raised
      THEN [html |-> r.html, err |-> [type |-> "re.error", urls |-> <<>>], out |-> old]
      ELSE [html |-> r.html,
            err |-> IF c.strict_offline /\ external_calls(r.html) # <<>>
                    THEN [type |-> "RuntimeError", urls |-> external_calls(r.html)]
                    ELSE NoError,
            out |-> [exists |-> TRUE, text |-> r.html]]

\* PoliumMap.save: the text it ends with, the error it raises, what it writes
save(d, c, old) ==
   LET r == SaveRewritten(d, c)
   IN IF r.raised
      THEN [html |-> r.html, err |-> [type |-> "re.error", urls |-> <<>>], out |-> old]
      ELSE IF c.strict_offline /\ external_calls(r.html) # <<>>
           THEN [html |-> r.html,
                 err |-> [type |-> "RuntimeError", urls |-> external_calls(r.html)],
                 out |-> old]
           ELSE [html |-> r.html, err |-> NoError, out |-> [exists |-> TRUE, text |-> r.html]]

(* ------------------------------ inputs --------------------------------- *)

MaxSaveElems == 3
MaxInlineElems == 2
MaxRewriteElems == 3

URL_JS == <<LEAFLET_PRE, "1.9.3", "/dist/leaflet.js">>
URL_CSS == <<LEAFLET_PRE, "1.9.3", "/dist/leaflet.css">>

RECURSIVE DocsOf(_, _)
\* all concatenations of at most n elements of E
DocsOf(E, n) ==
   IF n = 0 THEN { <<>> }
   ELSE DocsOf(E, n - 1) \cup { d \o e : d \in DocsOf(E, n - 1), e \in E }

\* document fragments for inline mode: well-formed tags, tags that carry the
\* URL twice, a URL in running text (also right before an unrelated script
\* element), and the bare tag literals
ElemsInline ==
   { <<"<script">> \o URL_JS \o <<">", "</script>">>,
     URL_JS \o <<"<script", ">", "x", "</script>">>,
     <<"<script">> \o URL_JS \o URL_JS \o <<">", "</script>">>,
     <<"<link">> \o URL_CSS \o <<">">>,
     <<"<link">> \o URL_CSS \o URL_CSS \o <<">">>,
     <<"<link", ">">>,
     <<"<script", ">", JS_LONG, "</script>">>,
     <<"<script", ">", "x", "</script>", "<link">> \o URL_CSS \o <<">">>,
     URL_JS, URL_CSS, <<"x">>,
     <<"<script">>, <<"</script>">>, <<"<link">>, <<">">> }

\* document fragments for save(): quoted and bare URLs of every kind
ElemsSave ==
   { <<"\"">>, <<"x">>, <<EXT_URL>>, <<LOOP_URL>>, <<LOOP_HTTPS_URL>>, <<LOOKALIKE_URL>>,
     <<OSM_URL>>,
     <<"<script", "\"">> \o URL_JS \o <<"\"", ">", "</script>">>,
     <<"<link", "\"">> \o URL_CSS \o <<"\"", ">">> }

\* document fragments for reference mode: whole URLs and their pieces
ElemsRewrite ==
   { URL_JS, URL_CSS, <<LEAFLET_PRE>>, <<"1.9.3">>, <<"/dist/leaflet.js">>,
     <<"/dist/leaflet.css">>, <<OSM_URL>>, <<"x">>,
     <<"https://code.jquery.com/jquery-", "3.7.1", ".min.js">> }

MAP_NONE == <<>>
MAP_LOCAL == ("leaflet_js" :> <<"leaflet.js">> @@ "leaflet_css" :> <<"leaflet.css">>)
MAP_JS_ONLY == ("leaflet_js" :> <<"leaflet.js">>)
MAP_BACKSLASH == ("leaflet_js" :> <<"assets\\leaflet.js">>)

FS_EMPTY == <<>>
FS_LONG ==
   ( <<"leaflet.js">> :> File(<<JS_LONG>>) @@ <<"leaflet.css">> :> File(<<CSS_LONG>>) @@
     <<"assets", "/", "leaflet.js">> :> File(<<JS_LONG>>) @@
     <<"assets", "/", "leaflet.css">> :> File(<<CSS_LONG>>) )
FS_SHORT ==
   ( <<"leaflet.js">> :> File(<<JS_SHORT>>) @@ <<"leaflet.css">> :> File(<<CSS_SHORT>>) @@
     <<"assets", "/", "leaflet.js">> :> File(<<JS_SHORT>>) @@
     <<"assets", "/", "leaflet.css">> :> File(<<CSS_SHORT>>) )
FS_NO_CSS ==
   ( <<"leaflet.js">> :> File(<<JS_LONG>>) @@ <<"assets", "/", "leaflet.js">> :> File(<<JS_LONG>>) )
FS_UNREADABLE_JS ==
   ( <<"leaflet.js">> :> Unreadable @@ <<"leaflet.css">> :> File(<<CSS_SHORT>>) @@
     <<"assets", "/", "leaflet.js">> :> Unreadable @@
     <<"assets", "/", "leaflet.css">> :> File(<<CSS_SHORT>>) )

Config(ad, am, embed, strict, tiles, fs) ==
   [assets_dir |-> ad, assets_map |-> am, embed_assets |-> embed,
    strict_offline |-> strict, tiles |-> tiles, fs |-> fs]

\* save() without offline assets never looks at the files; with assets_map
\* every file, no file, or the script alone exists, and one path holds a
\* backslash
ConfigsSave ==
   { Config("", a[1], e, s, t, a[2]) :
       a \in { <<MAP_NONE, FS_EMPTY>>, <<MAP_LOCAL, FS_EMPTY>>,
               <<MAP_LOCAL, FS_LONG>>, <<MAP_LOCAL, FS_NO_CSS>>,
               <<MAP_BACKSLASH, FS_EMPTY>> },
       e \in BOOLEAN, s \in BOOLEAN, t \in { <<>>, <<LOOP_URL>> } }

ConfigsInline ==
   { Config(a[1], a[2], TRUE, FALSE, <<LOOP_URL>>, f) :
       a \in { <<"", MAP_LOCAL>>, <<"assets", MAP_NONE>> },
       f \in { FS_LONG, FS_SHORT, FS_NO_CSS, FS_UNREADABLE_JS } }

ConfigsRewrite ==
   { Config(a[1], a[2], FALSE, FALSE, t, f) :
       a \in { <<"", MAP_LOCAL>>, <<"", MAP_JS_ONLY>>, <<"", MAP_BACKSLASH>>, <<"assets", MAP_NONE>> },
       t \in { <<>>, <<LOOP_URL>> }, f \in { FS_EMPTY, FS_LONG } }

(* --------------------------- PoliumMap.save ---------------------------- *)

Init ==
   /\ doc \in DocsOf(ElemsSave, MaxSaveElems)
   /\ cfg \in ConfigsSave
   /\ html = <<>>
   /\ pc = "ready"
   /\ key = 0
   /\ pending = <<>>
   /\ out = NoFile
   /\ err = NoError
   /\ snap = <<>>
   /\ last = "init"
   /\ GapIdle /\ RingIdle /\ MapIdle /\ FetchIdle

Save ==
   /\ pc = "ready"
   /\ html' = save(doc, cfg, out).html
   /\ err' = save(doc, cfg, out).err
   /\ out' = save(doc, cfg, out).out
   /\ pc' = IF save(doc, cfg, out).err.type = "none" THEN "returned" ELSE "raised"
   /\ last' = "save"
   /\ UNCHANGED <<doc, cfg, key, pending, snap, gapVars, ringVars, mapVars,
                  fetchVars>>

Next == Save

Spec == Init /\ [][Next]_vars

(* ------------------- _embed_inline_assets, step by step ---------------- *)

InitInline ==
   /\ doc \in DocsOf(ElemsInline, MaxInlineElems)
   /\ cfg \in ConfigsInline
   /\ html = doc
   /\ pc = "embed_tiles"
   /\ key = 0
   /\ pending = <<>>
   /\ out = NoFile
   /\ err = NoError
   /\ snap = <<>>
   /\ last = "init"
   /\ GapIdle /\ RingIdle /\ MapIdle /\ FetchIdle

\* lines 176-177
EmbedTiles ==
   /\ pc = "embed_tiles"
   /\ html' = EmbedTilesText(html, cfg.tiles).html
   /\ pc' = IF EmbedTilesText(html, cfg.tiles).raised THEN "raised" ELSE "embed_key"
   /\ err' = IF EmbedTilesText(html, cfg.tiles).raised
             THEN [type |-> "re.error", urls |-> <<>>] ELSE err
   /\ key' = 1
   /\ last' = "tiles"
   /\ UNCHANGED <<doc, cfg, pending, out, snap, gapVars, ringVars, mapVars,
                  fetchVars>>

\* lines 180-195 (221 for a style key): one iteration up to list(pat.finditer(html))
EmbedKeyStep ==
   /\ pc = "embed_key"
   /\ key <= Len(Keys)
   /\ IF KeyOutcome(Keys[key], cfg.assets_dir, cfg.assets_map, cfg.fs) = "embed"
      THEN /\ pending' = Reverse(finditer(Keys[key], html))
           /\ snap' = html
           /\ pc' = "embed_match"
           /\ key' = key
           /\ last' = "matches"
      ELSE /\ pending' = <<>>
           /\ snap' = snap
           /\ pc' = "embed_key"
           /\ key' = key + 1
           /\ last' = KeyOutcome(Keys[key], cfg.assets_dir, cfg.assets_map, cfg.fs)
   /\ UNCHANGED <<doc, cfg, html, out, err, gapVars, ringVars, mapVars,
                  fetchVars>>

\* lines 196-215 (222-239): the loop body for the next match of reversed(matches)
EmbedMatchStep ==
   /\ pc = "embed_match"
   /\ pending # <<>>
   /\ html' = EmbedOne(html, Keys[key], Head(pending),
                       inline_content(Keys[key],
                          cfg.fs[Configured(Keys[key], cfg.assets_dir, cfg.assets_map)].text)).html
   /\ last' = EmbedOne(html, Keys[key], Head(pending),
                       inline_content(Keys[key],
                          cfg.fs[Configured(Keys[key], cfg.assets_dir, cfg.assets_map)].text)).what
   /\ pending' = Tail(pending)
   /\ UNCHANGED <<doc, cfg, pc, key, out, err, snap, gapVars, ringVars, mapVars,
                  fetchVars>>

\* the loop over the matches is exhausted: on to the next key
EmbedKeyDone ==
   /\ pc = "embed_match"
   /\ pending = <<>>
   /\ pc' = "embed_key"
   /\ key' = key + 1
   /\ last' = "key_done"
   /\ UNCHANGED <<doc, cfg, html, pending, out, err, snap, gapVars, ringVars, mapVars,
                  fetchVars>>

\* line 245
EmbedReturn ==
   /\ pc = "embed_key"
   /\ key > Len(Keys)
   /\ pc' = "returned"
   /\ last' = "return"
   /\ UNCHANGED <<doc, cfg, html, key, pending, out, err, snap, gapVars, ringVars, mapVars,
                  fetchVars>>

NextInline == EmbedTiles \/ EmbedKeyStep \/ EmbedMatchStep \/ EmbedKeyDone \/ EmbedReturn

SpecInline == InitInline /\ [][NextInline]_vars

\* the steps compute what the function computes
StepsAgree ==
   pc = "returned" =>
      html = embed_inline_assets(doc, cfg.assets_dir, cfg.assets_map, cfg.tiles, cfg.fs).html

(* ---------------- _rewrite_external_assets, applied twice -------------- *)

InitRewrite ==
   /\ doc \in DocsOf(ElemsRewrite, MaxRewriteElems)
   /\ cfg \in ConfigsRewrite
   /\ html = doc
   /\ pc = "pass1"
   /\ key = 0
   /\ pending = <<>>
   /\ out = NoFile
   /\ err = NoError
   /\ snap = <<>>
   /\ last = "init"
   /\ GapIdle /\ RingIdle /\ MapIdle /\ FetchIdle

RewritePass(from, to) ==
   /\ pc = from
   /\ html' = rewrite_external_assets(html, cfg.assets_dir, cfg.assets_map, cfg.tiles).html
   /\ snap' = IF from = "pass1" THEN html' ELSE snap
   /\ pc' = IF rewrite_external_assets(html, cfg.assets_dir, cfg.assets_map, cfg.tiles).raised
            THEN "raised" ELSE to
   /\ err' = IF rewrite_external_assets(html, cfg.assets_dir, cfg.assets_map, cfg.tiles).raised
             THEN [type |-> "re.error", urls |-> <<>>] ELSE err
   /\ last' = from
   /\ UNCHANGED <<doc, cfg, key, pending, out, gapVars, ringVars, mapVars,
                  fetchVars>>

\* rewrite(html): the first application
Rewrite == RewritePass("pass1", "pass2")

\* rewrite(rewrite(html)): the same table applied to the first result
RewriteAgain == RewritePass("pass2", "returned")

NextRewrite == Rewrite \/ RewriteAgain

SpecRewrite == InitRewrite /\ [][NextRewrite]_vars

(* ------------------------------ claims --------------------------------- *)

Range(q) == { q[i] : i \in 1..Len(q) }

Count(t, tok) == Cardinality({ i \in 1..Len(t) : t[i] = tok })

\* save() was asked to rewrite at all (line 687)
Rewriting(c) == c.assets_dir # "" \/ DOMAIN c.assets_map # {}

\* the key whose matches have just been processed
DoneKey == Keys[key - 1]

\* C1: in inline mode, whenever a match of reversed(matches) is about to be
\* processed, its recorded start/end offsets still delimit the matched URL
\* in the current text.
C1_OffsetsStillDelimitUrl ==
   (pc = "embed_match" /\ pending # <<>>) =>
      Slice(html, Head(pending).start, Head(pending).end) = Head(pending).url

\* keys that have a replacement in reference mode
RefKeysAt(d, i, c) ==
   { k \in KeySet : /\ RefReplacement(k, c.assets_dir, c.assets_map, c.tiles) # <<>>
                    /\ PatternEnd(d, i, k) > 0 }

RECURSIVE RefExpected(_, _, _)
\* the document with every match of a configured resource replaced by its
\* path, everything else left as it was
RefExpected(d, i, c) ==
   IF i > Len(d) THEN <<>>
   ELSE IF RefKeysAt(d, i, c) = {} THEN <<d[i]>> \o RefExpected(d, i + 1, c)
   ELSE LET k == CHOOSE k \in RefKeysAt(d, i, c) : TRUE
        IN RefReplacement(k, c.assets_dir, c.assets_map, c.tiles)
           \o RefExpected(d, PatternEnd(d, i, k) + 1, c)

\* C2: in reference mode the result is the document with every substring
\* that matches the pattern of a resource with a configured path replaced by
\* that path, and the text of every other resource left exactly as it was.
C2_EveryMatchReplacedByItsPath ==
   pc \in {"pass2", "returned", "raised"} =>
      (pc # "raised" /\ snap = RefExpected(doc, 1, cfg))

\* the enclosing-tag spans of the matches of key k in text t that can be located
TagSpans(t, k) ==
   { [s |-> rfind(t, OpenLit(k), m.start),
      e |-> find(t, CloseLit(k), m.end) + SubLen(CloseLit(k))] :
        m \in { x \in Range(finditer(k, t)) :
                   /\ rfind(t, OpenLit(k), x.start) # -1
                   /\ find(t, CloseLit(k), x.end) # -1 } }

InSpan(t, k, i) == \E sp \in TagSpans(t, k) : sp.s <= Off(t, i) /\ Off(t, i) < sp.e
InsideSpan(t, k, i) == \E sp \in TagSpans(t, k) : sp.s < Off(t, i) /\ Off(t, i) < sp.e

RECURSIVE SpansReplaced(_, _, _, _)
\* text t with every enclosing-tag span replaced wholesale by one inline block
\* (spans that overlap or coincide count as one span)
SpansReplaced(t, k, inl, i) ==
   IF i > Len(t) THEN <<>>
   ELSE IF ~InSpan(t, k, i) THEN <<t[i]>> \o SpansReplaced(t, k, inl, i + 1)
   ELSE IF InsideSpan(t, k, i) THEN SpansReplaced(t, k, inl, i + 1)
   ELSE inl \o SpansReplaced(t, k, inl, i + 1)

DoneInline ==
   inline_content(DoneKey, cfg.fs[Configured(DoneKey, cfg.assets_dir, cfg.assets_map)].text)

\* C3: once the matches of a script key whose file exists have been
\* processed, every span from the nearest preceding '<script' to the end of
\* the next '</script>' around a match has been replaced wholesale by one
\* inline script block, and nothing else has changed.
C3_ScriptSpansReplacedWholesale ==
   (pc = "embed_key" /\ last = "key_done" /\ DoneKey \in JsKeys) =>
      html = SpansReplaced(snap, DoneKey, DoneInline, 1)

\* C4: once the matches of a style key whose file exists have been
\* processed, every span from the nearest preceding '<link' to the first '>'
\* after a match has been replaced by one inline style block, and nothing
\* else has changed.
C4_LinkSpansReplacedByStyle ==
   (pc = "embed_key" /\ last = "key_done" /\ DoneKey \in CssKeys) =>
      html = SpansReplaced(snap, DoneKey, DoneInline, 1)

\* the enclosing tag of match m can be located in text t
HasOpenBefore(t, k, m) ==
   \E o \in Occurrences(t, OpenLit(k)) : o + SubLen(OpenLit(k)) <= m.start
HasCloseAfter(t, k, m) ==
   \E o \in Occurrences(t, CloseLit(k)) : o >= m.end

\* C5: in inline mode, a match with no tag-open literal before it or no
\* tag-close literal after it is left alone: the step changes no text,
\* raises nothing, and the loop goes on with the remaining matches.
C5_UnlocatableMatchLeftAlone ==
   [][ ( /\ pc = "embed_match"
         /\ pending # <<>>
         /\ ~(HasOpenBefore(html, Keys[key], Head(pending))
              /\ HasCloseAfter(html, Keys[key], Head(pending))) )
       => ( /\ html' = html
            /\ err' = NoError
            /\ pc' = "embed_match"
            /\ key' = key
            /\ pending' = Tail(pending) ) ]_vars

C5_Witness ==
   /\ pc = "embed_match"
   /\ last \in {"no_open", "no_close"}
   /\ pending # <<>>
   /\ html = snap

\* C6 as stated: whenever save() writes a document, no tile-server URL is
\* left in it, whatever the mode and whatever assets are configured.
C6_TilesAlwaysReplaced ==
   pc = "returned" => OSM_URL \notin Range(out.text)

\* C6 amended: when save() rewrites (offline_assets_dir or assets_map given)
\* with a non-empty tiles_fallback, every tile-server URL of the rendered
\* document is replaced, in both modes; in reference mode each one has
\* become tiles_fallback.
C6_TilesReplacedWhenRewriting ==
   (pc = "returned" /\ Rewriting(cfg) /\ cfg.tiles # <<>>) =>
      /\ OSM_URL \notin Range(out.text)
      /\ ~cfg.embed_assets =>
            Count(out.text, cfg.tiles[1]) = Count(doc, cfg.tiles[1]) + Count(doc, OSM_URL)

C6_Witness ==
   /\ pc = "returned"
   /\ Rewriting(cfg)
   /\ cfg.embed_assets
   /\ cfg.tiles # <<>>
   /\ OSM_URL \in Range(doc)
   /\ cfg.tiles[1] \in Range(out.text)

\* the configured local file of key k does not exist
FileMissing(k, c) ==
   /\ Configured(k, c.assets_dir, c.assets_map) # <<>>
   /\ Configured(k, c.assets_dir, c.assets_map) \notin DOMAIN c.fs

C7_InlineKeepsUrlsOfMissingFile ==
   pc = "returned" =>
      \A k \in KeySet \ {"osm_tiles"} :
         FileMissing(k, cfg) => Len(finditer(k, html)) = Len(finditer(k, doc))

\* the entries of assets_map whose file exists
Present(c) ==
   [ k \in { x \in DOMAIN c.assets_map : c.assets_map[x] \in DOMAIN c.fs } |-> c.assets_map[k] ]

ExternalUrls == HttpStart \ { LOOP_URL, LOOP_HTTPS_URL }
LoopbackUrls == { LOOP_URL, LOOP_HTTPS_URL }

\* token i of t is a quoted URL literal with a non-loopback host
QuotedExternalAt(t, i) ==
   /\ 1 < i /\ i < Len(t)
   /\ t[i] \in ExternalUrls
   /\ t[i - 1] \in Quotes /\ t[i + 1] \in Quotes

\* C8: with strict_offline, every quoted absolute URL with a non-loopback
\* host that is left after rewriting makes save() fail, and the error lists
\* that exact URL.
C8_StrictReportsEveryExternalUrl ==
   (pc \in {"returned", "raised"} /\ cfg.strict_offline /\ err.type # "re.error") =>
      \A i \in 1..Len(html) :
         QuotedExternalAt(html, i) =>
            /\ pc = "raised"
            /\ err.type = "RuntimeError"
            /\ <<html[i]>> \in Range(err.urls)

\* C9: with strict_offline, a text whose only absolute URLs have a loopback
\* host passes: nothing is raised and the artifact is written.
C9_LoopbackOnlyPasses ==
   ( /\ pc \in {"returned", "raised"}
     /\ cfg.strict_offline
     /\ err.type # "re.error"
     /\ \A i \in 1..Len(html) : html[i] \in HttpStart => html[i] \in LoopbackUrls )
   => (pc = "returned" /\ out = [exists |-> TRUE, text |-> html])

\* C10: applying the reference-mode rewrite to its own result with the same
\* table gives that result again.
C10_RewriteIdempotent ==
   pc = "returned" => html = snap

(* ------------- the rewriter in either mode, strict check off ----------- *)

MaxModesElems == 2

\* document fragments for either mode: well-formed tags and a bare tag-open
ElemsModes ==
   { <<"<script", "\"">> \o URL_JS \o <<"\"", ">", "</script>">>,
     <<"<link", "\"">> \o URL_CSS \o <<"\"", ">">>,
     URL_JS, <<"<script">>, <<OSM_URL>>, <<"x">> }

\* resolution tables with plain and backslash paths; every file readable,
\* the script unreadable, the style sheet missing
ConfigsModes ==
   { Config("", am, e, FALSE, <<LOOP_URL>>, f) :
       am \in { MAP_LOCAL, MAP_BACKSLASH }, e \in BOOLEAN,
       f \in { FS_LONG, FS_UNREADABLE_JS, FS_NO_CSS } }

InitModes ==
   /\ doc \in DocsOf(ElemsModes, MaxModesElems)
   /\ cfg \in ConfigsModes
   /\ html = doc
   /\ pc = "ready"
   /\ key = 0
   /\ pending = <<>>
   /\ out = NoFile
   /\ err = NoError
   /\ snap = <<>>
   /\ last = "init"
   /\ GapIdle /\ RingIdle /\ MapIdle /\ FetchIdle

\* the call of the rewriter r (a [raised, html] result) and how it ends
RunRewriter(r, mode) ==
   /\ html' = r.html
   /\ pc' = IF r.raised THEN "raised" ELSE "returned"
   /\ err' = IF r.raised THEN [type |-> "re.error", urls |-> <<>>] ELSE NoError
   /\ last' = mode
   /\ UNCHANGED <<doc, cfg, key, pending, out, snap, gapVars, ringVars, mapVars,
                  fetchVars>>

\* save() lines 688-695 with strict_offline off
RunInline ==
   /\ pc = "ready"
   /\ cfg.embed_assets
   /\ RunRewriter(embed_inline_assets(html, cfg.assets_dir, cfg.assets_map, cfg.tiles, cfg.fs),
                  "inline")

\* save() lines 696-703 with strict_offline off
RunReference ==
   /\ pc = "ready"
   /\ ~cfg.embed_assets
   /\ RunRewriter(rewrite_external_assets(html, cfg.assets_dir, cfg.assets_map, cfg.tiles),
                  "reference")

NextModes == RunInline \/ RunReference

SpecModes == InitModes /\ [][NextModes]_vars

\* the entries of assets_map whose file exists and can be read
Readable(c) ==
   [ k \in { x \in DOMAIN c.assets_map :
               c.assets_map[x] \in DOMAIN c.fs /\ c.fs[c.assets_map[x]].ok } |-> c.assets_map[k] ]

\* C11: with the strict check off the rewriter never raises in either mode,
\* and in inline mode a resource whose file cannot be read is skipped (the
\* result is what it would be without that resource in the table) while the
\* other resources are still processed.
C11_OnlyStrictFailureIsFatal ==
   pc \in {"returned", "raised"} =>
      /\ pc = "returned"
      /\ err = NoError
      /\ cfg.embed_assets =>
            html = embed_inline_assets(doc, "", Readable(cfg), cfg.tiles, cfg.fs).html

(* ------------- demo_ais_dark_zone.py: the gap and its radii ------------ *)
(* Instants are whole minutes after the first fix, speeds tenths of a     *)
(* knot.  Python's doubles are modelled by exact rational numbers         *)
(* [num, den]: the rounding of double precision is not modelled.          *)

MaxFixes == 5

RECURSIVE GCD(_, _)
GCD(x, y) == IF y = 0 THEN x ELSE GCD(y, x % y)

\* a rational number num/den (den > 0) in lowest terms, and its product
Rat(num, den) ==
   LET g == GCD(IF num < 0 THEN -num ELSE num, den)
   IN [num |-> num \div g, den |-> den \div g]
RatMul(x, y) == Rat(x.num * y.num, x.den * y.den)

\* meters per nautical mile
NM == 1852

\* max_speed_kn = 22.0
max_speed_kn == Rat(22, 1)

\* the column sog_kn of the sample data
SampleSog == <<120, 128, 123, 115, 110>>

\* elapsed minutes between consecutive fixes that the tracks are built from
Steps == { 0, 10, 30, 31, 120 }
Thresholds == { 10, 30 }

RECURSIVE TracksOf(_)
\* the time-ordered tracks of at most len fixes (df is sorted by time, line 42)
TracksOf(len) ==
   IF len = 0 THEN { <<>> }
   ELSE IF len = 1 THEN { <<>>, <<0>> }
   ELSE TracksOf(len - 1)
        \cup { tr \o <<tr[Len(tr)] + st>> : tr \in { x \in TracksOf(len - 1) : Len(x) = len - 1 },
                                             st \in Steps }

\* speed columns for a track of len fixes
SogColumns(len) ==
   { [j \in 1..len |-> SampleSog[((j - 1) % Len(SampleSog)) + 1]],
     [j \in 1..len |-> 0],
     [j \in 1..len |-> 220] }

\* the comparison of line 49 with a tie taken for a gap
ExceedsOrEquals(t1, t2, threshold) == t2 - t1 >= threshold

\* times[i + 1] - times[i] > gap_threshold, for consecutive instants t1, t2
Exceeds(t1, t2, threshold) == t2 - t1 > threshold

\* gap_dur.total_seconds() / 3600.0, for a duration of dur minutes
gap_hours(dur) == Rat(dur, 60)

\* speed * gap_hours * NM with the hours taken for the minutes they came from
RadiusFromMinutes(speed, dur) == RatMul(RatMul(speed, Rat(dur, 1)), Rat(NM, 1))
\* speed * gap_hours * NM
Radius(speed, dur) == RatMul(RatMul(speed, gap_hours(dur)), Rat(NM, 1))

\* the speed of the fix after the gap instead of the fix before it
sog_kn_after(i) == Rat(sog[i + 2], 10)

\* float(df.row(i)[3]) for the 0-based row i
sog_kn(i) == Rat(sog[i + 1], 10)

InitGap ==
   /\ times \in TracksOf(MaxFixes)
   /\ sog \in SogColumns(Len(times))
   /\ gap_threshold \in Thresholds
   /\ idx = 0
   /\ gap_idx = None
   /\ gap_dur = None
   /\ radius_conservative_m = None
   /\ radius_max_m = None
   /\ pc = "scan"
   /\ err = NoError
   /\ last = "init"
   /\ doc = <<>> /\ cfg = None /\ html = <<>> /\ key = 0 /\ pending = <<>>
   /\ out = NoFile /\ snap = <<>>
   /\ RingIdle /\ MapIdle /\ FetchIdle

\* the scan that goes on after a gap is found, so that the last gap wins
ScanStepNoBreak ==
   /\ pc = "scan"
   /\ idx < Len(times) - 1
   /\ gap_idx' = IF Exceeds(times[idx + 1], times[idx + 2], gap_threshold) THEN idx ELSE gap_idx
   /\ idx' = idx + 1
   /\ last' = "scan"
   /\ UNCHANGED <<pc, times, sog, gap_threshold, gap_dur, radius_conservative_m, radius_max_m,
                  err, rewriterVars, mapVars, fetchVars, ringVars>>

\* lines 48-51: one iteration of "for i in range(len(times) - 1)"
ScanStep ==
   /\ pc = "scan"
   /\ idx < Len(times) - 1
   /\ IF Exceeds(times[idx + 1], times[idx + 2], gap_threshold)
      THEN /\ gap_idx' = idx
           /\ idx' = idx
           /\ pc' = "assert"
           /\ last' = "break"
      ELSE /\ gap_idx' = gap_idx
           /\ idx' = idx + 1
           /\ pc' = "scan"
           /\ last' = "scan"
   /\ UNCHANGED <<times, sog, gap_threshold, gap_dur, radius_conservative_m, radius_max_m,
                  err, rewriterVars, mapVars, fetchVars, ringVars>>

\* the range is exhausted
ScanEnd ==
   /\ pc = "scan"
   /\ idx >= Len(times) - 1
   /\ pc' = "assert"
   /\ last' = "exhausted"
   /\ UNCHANGED <<gapVars, err, rewriterVars, mapVars, fetchVars, ringVars>>

\* line 52: assert gap_idx is not None, "No gap detected in sample data."
AssertGap ==
   /\ pc = "assert"
   /\ pc' = IF gap_idx = None THEN "raised" ELSE "measure"
   /\ err' = IF gap_idx = None THEN [type |-> "AssertionError", urls |-> <<>>] ELSE err
   /\ last' = "assert"
   /\ UNCHANGED <<gapVars, rewriterVars, mapVars, fetchVars, ringVars>>

\* the gap measured from the gap to the end of the track
MeasureToEnd ==
   /\ pc = "measure"
   /\ gap_dur' = times[Len(times)] - times[gap_idx + 1]
   /\ pc' = "radii"
   /\ last' = "measure"
   /\ UNCHANGED <<times, sog, gap_threshold, idx, gap_idx, radius_conservative_m, radius_max_m,
                  err, rewriterVars, mapVars, fetchVars, ringVars>>

\* lines 54-57: t_before, t_after, gap_dur
Measure ==
   /\ pc = "measure"
   /\ gap_dur' = times[gap_idx + 2] - times[gap_idx + 1]
   /\ pc' = "radii"
   /\ last' = "measure"
   /\ UNCHANGED <<times, sog, gap_threshold, idx, gap_idx, radius_conservative_m, radius_max_m,
                  err, rewriterVars, mapVars, fetchVars, ringVars>>

\* lines 61-68: sog_before, radius_conservative_m, radius_max_m
Radii ==
   /\ pc = "radii"
   /\ radius_conservative_m' = Radius(sog_kn(gap_idx), gap_dur)
   /\ radius_max_m' = Radius(max_speed_kn, gap_dur)
   /\ pc' = "done"
   /\ last' = "radii"
   /\ UNCHANGED <<times, sog, gap_threshold, idx, gap_idx, gap_dur, err, rewriterVars, mapVars, fetchVars, ringVars>>

NextGap == ScanStep \/ ScanEnd \/ AssertGap \/ Measure \/ Radii

SpecGap == InitGap /\ [][NextGap]_vars

\* elapsed minutes of the adjacent pair (j, j + 1), 0-based
Elapsed(j) == times[j + 2] - times[j + 1]

\* the 0-based indices j of the adjacent pairs (j, j + 1)
Pairs == 0..(Len(times) - 2)

ScanOver == pc \in {"assert", "measure", "radii", "done", "raised"}

\* C12: the scan selects a pair only if its elapsed time strictly exceeds
\* the threshold, and selects none exactly when no pair does: a pair whose
\* elapsed time equals the threshold does not qualify.
C12_GapIffStrictlyExceeds ==
   ScanOver =>
      /\ gap_idx # None => (gap_idx \in Pairs /\ Elapsed(gap_idx) > gap_threshold)
      /\ gap_idx = None <=> \A j \in Pairs : Elapsed(j) <= gap_threshold

\* a track whose single long pair equals the threshold: no gap
C12_Witness ==
   /\ ScanOver
   /\ gap_idx = None
   /\ Len(times) >= 3
   /\ \E j \in Pairs : Elapsed(j) = gap_threshold

\* C13: in a time-ordered track the selected pair is the earliest one that
\* exceeds the threshold, whether or not a later pair is longer.
C13_FirstGapWins ==
   (ScanOver /\ gap_idx # None) =>
      \A j \in Pairs : Elapsed(j) > gap_threshold => gap_idx <= j

\* two gaps, the later one longer, and the earlier one selected
C13_Witness ==
   /\ ScanOver
   /\ gap_idx # None
   /\ \E j \in Pairs : /\ j > gap_idx
                       /\ Elapsed(j) > gap_threshold
                       /\ Elapsed(j) > Elapsed(gap_idx)

\* C14: when no adjacent pair exceeds the threshold the result is the
\* explicit empty result None and nothing is raised.
C14_NoGapIsNotAnError ==
   (ScanOver /\ \A j \in Pairs : Elapsed(j) <= gap_threshold) =>
      /\ gap_idx = None
      /\ pc # "raised"
      /\ err = NoError

\* the track 12:00, 12:10, 12:20, 14:20, 14:30
SampleTrack == <<0, 10, 20, 140, 150>>

\* C15: the gap is the adjacent pair (gap_idx, gap_idx + 1) and its duration
\* is the instant of fix gap_idx + 1 minus the instant of fix gap_idx; the
\* sample track with a 30-minute threshold gives the pair (2, 3) and 2.0
\* hours.
C15_GapIsAdjacentPairWithItsDuration ==
   pc \in {"radii", "done"} =>
      /\ gap_idx \in Pairs
      /\ gap_dur = times[gap_idx + 2] - times[gap_idx + 1]
      /\ (times = SampleTrack /\ gap_threshold = 30) =>
            (gap_idx = 2 /\ gap_dur = 120 /\ gap_hours(gap_dur) = Rat(2, 1))

C15_Witness ==
   /\ pc = "done"
   /\ times = SampleTrack
   /\ gap_threshold = 30
   /\ gap_idx = 2
   /\ gap_dur = 120

\* C20: each radius in meters is the speed in knots times the elapsed hours
\* times 1852 and nothing else; 22 kn over 2 hours is exactly 81,488 m.
C20_RadiusIsKnotsTimesHoursTimes1852 ==
   pc = "done" =>
      /\ radius_max_m = Rat(22 * gap_dur * 1852, 60)
      /\ radius_conservative_m = Rat(sog[gap_idx + 1] * gap_dur * 1852, 10 * 60)
      /\ gap_dur = 120 => radius_max_m = Rat(81488, 1)

C20_Witness ==
   /\ pc = "done"
   /\ gap_dur = 120
   /\ radius_max_m = [num |-> 81488, den |-> 1]
   /\ sog[gap_idx + 1] = 123

(* ---------------- _geodesic_circle, vertex by vertex ------------------- *)
(* geod.fwd is the geodesic library's forward projection.  A vertex is     *)
(* kept as what it is the projection of: the point reached from `at` by    *)
(* going `dist` meters at bearing `brg`; going 0 meters reaches `at`       *)
(* itself whatever the bearing.  Bearings are exact rational degrees.      *)

MaxSegments == 6

RatAdd(x, y) == Rat(x.num * y.den + y.num * x.den, x.den * y.den)

\* geod.fwd(lon, lat, a, radius_m), lines 321-322
fwd(c, a, r) ==
   IF r = 0 THEN [at |-> c, brg |-> Rat(0, 1), dist |-> 0]
   ELSE [at |-> c, brg |-> a, dist |-> r]

\* step = 360.0 / n, for n # 0
RingStepAngle(n) == IF n > 0 THEN Rat(360, n) ELSE Rat(-360, -n)

\* centers (lon, lat) in hundredths of a degree, radii in meters, and the
\* values of n: the default 256, small counts, and counts below 1
Centers == { [lon |-> 0, lat |-> 0], [lon |-> -18, lat |-> 5151] }
RadiiM == { 0, 81488 }
SegmentCounts == (-1..MaxSegments) \cup { 256 }

\* a call _geodesic_circle(lon, lat, radius_m, n), also through
\* add_range_ring(center, radius_m, n=n)
InitRing ==
   /\ has_pyproj \in BOOLEAN
   /\ center \in Centers
   /\ radius_m \in RadiiM
   /\ seg_n \in SegmentCounts
   /\ az = None
   /\ coords = <<>>
   /\ pc = "check"
   /\ err = NoError
   /\ last = "init"
   /\ doc = <<>> /\ cfg = None /\ html = <<>> /\ key = 0 /\ pending = <<>>
   /\ out = NoFile /\ snap = <<>>
   /\ GapIdle /\ MapIdle /\ FetchIdle

\* lines 314-315
CheckPyproj ==
   /\ pc = "check"
   /\ pc' = IF has_pyproj THEN "step" ELSE "raised"
   /\ err' = IF has_pyproj THEN err ELSE [type |-> "RuntimeError", urls |-> <<>>]
   /\ last' = "check"
   /\ UNCHANGED <<ringVars, rewriterVars, mapVars, fetchVars, gapVars>>

\* the set-up of the loop with a radius of 0 turned away
ComputeStepRejectingZeroRadius ==
   /\ pc = "step"
   /\ IF seg_n = 0 \/ radius_m = 0
      THEN /\ pc' = "raised"
           /\ err' = [type |-> IF seg_n = 0 THEN "ZeroDivisionError" ELSE "ValueError",
                      urls |-> <<>>]
           /\ az' = az
      ELSE /\ pc' = "loop"
           /\ err' = err
           /\ az' = Rat(0, 1)
   /\ last' = "step"
   /\ UNCHANGED <<has_pyproj, center, radius_m, seg_n, coords, rewriterVars, mapVars, fetchVars, gapVars>>

\* lines 316-319: geod, coords = [], step = 360.0 / n, a = 0.0
ComputeStep ==
   /\ pc = "step"
   /\ IF seg_n = 0
      THEN /\ pc' = "raised"
           /\ err' = [type |-> "ZeroDivisionError", urls |-> <<>>]
           /\ az' = az
      ELSE /\ pc' = "loop"
           /\ err' = err
           /\ az' = Rat(0, 1)
   /\ last' = "step"
   /\ UNCHANGED <<has_pyproj, center, radius_m, seg_n, coords, rewriterVars, mapVars, fetchVars, gapVars>>

\* the loop body with the bearing advanced before the projection
RingStepBearingFirst ==
   /\ pc = "loop"
   /\ Len(coords) < seg_n
   /\ coords' = Append(coords, fwd(center, RatAdd(az, RingStepAngle(seg_n)), radius_m))
   /\ az' = RatAdd(az, RingStepAngle(seg_n))
   /\ last' = "vertex"
   /\ UNCHANGED <<pc, err, has_pyproj, center, radius_m, seg_n, rewriterVars, mapVars, fetchVars, gapVars>>

\* lines 320-323: one iteration of "for _ in range(n)"
RingStep ==
   /\ pc = "loop"
   /\ Len(coords) < seg_n
   /\ coords' = Append(coords, fwd(center, az, radius_m))
   /\ az' = RatAdd(az, RingStepAngle(seg_n))
   /\ last' = "vertex"
   /\ UNCHANGED <<pc, err, has_pyproj, center, radius_m, seg_n, rewriterVars, mapVars, fetchVars, gapVars>>

\* the return without the closing vertex
CloseRingOpen ==
   /\ pc = "loop"
   /\ Len(coords) >= seg_n
   /\ pc' = "returned"
   /\ last' = "close"
   /\ UNCHANGED <<err, ringVars, rewriterVars, mapVars, fetchVars, gapVars>>

\* lines 324-325: coords.append(coords[0]); return coords
CloseRing ==
   /\ pc = "loop"
   /\ Len(coords) >= seg_n
   /\ IF coords = <<>>
      THEN /\ pc' = "raised"
           /\ err' = [type |-> "IndexError", urls |-> <<>>]
           /\ coords' = coords
      ELSE /\ pc' = "returned"
           /\ err' = err
           /\ coords' = Append(coords, coords[1])
   /\ last' = "close"
   /\ UNCHANGED <<has_pyproj, center, radius_m, seg_n, az, rewriterVars, mapVars, fetchVars, gapVars>>

NextRing == CheckPyproj \/ ComputeStep \/ RingStep \/ CloseRing

SpecRing == InitRing /\ [][NextRing]_vars

\* demo_ais_dark_zone.geodesic_circle, lines 19-21: the vertices for
\* az in [i * (360.0 / n) for i in range(n)]
DemoCoords(c, r, n) ==
   [ j \in 1..n |-> fwd(c, RatMul(Rat(j - 1, 1), RingStepAngle(n)), r) ]

\* demo_ais_dark_zone.geodesic_circle for n >= 1
geodesic_circle(c, r, n) == Append(DemoCoords(c, r, n), DemoCoords(c, r, n)[1])

RingOver == pc \in {"returned", "raised"}

\* C16: for every center, radius and segment count n >= 1 (the geodesic
\* library being there) the ring has exactly n + 1 vertices and its last
\* vertex equals its first; both implementations give the same ring.
C16_RingHasNPlus1VerticesAndIsClosed ==
   (RingOver /\ has_pyproj /\ seg_n >= 1) =>
      /\ pc = "returned"
      /\ Len(coords) = seg_n + 1
      /\ coords[Len(coords)] = coords[1]
      /\ coords = geodesic_circle(center, radius_m, seg_n)

C16_Witness ==
   /\ pc = "returned"
   /\ seg_n = 256
   /\ Len(coords) = 257
   /\ radius_m > 0

\* C17: a segment count below 3 is either rejected by an explicit error or
\* clamped to at least 3: the call never ends in a division by zero or an
\* index error and never returns fewer than 4 vertices.
C17_SegmentCountBelow3HasPolicy ==
   (RingOver /\ has_pyproj /\ seg_n < 3) =>
      /\ err.type \notin {"ZeroDivisionError", "IndexError"}
      /\ pc = "returned" => Len(coords) >= 4

\* C18: the k-th computed vertex (k = 0..n-1) is the projection from the
\* center at bearing k * 360 / n and distance radius_m: the first bearing is
\* 0, the bearings grow in equal steps and stay below 360.
C18_VertexKAtBearingKTimes360OverN ==
   (pc \in {"loop", "returned"} /\ seg_n >= 1) =>
      \A k \in 0..(seg_n - 1) :
         k < Len(coords) =>
            /\ coords[k + 1] = fwd(center, Rat(k * 360, seg_n), radius_m)
            /\ k * 360 < 360 * seg_n
            /\ radius_m > 0 => /\ coords[k + 1].brg.num * seg_n = k * 360 * coords[k + 1].brg.den
                               /\ coords[k + 1].brg.num < 360 * coords[k + 1].brg.den

C18_Witness ==
   /\ pc = "returned"
   /\ seg_n = 6
   /\ radius_m > 0
   /\ coords[1].brg = [num |-> 0, den |-> 1]
   /\ coords[2].brg = [num |-> 60, den |-> 1]
   /\ coords[6].brg = [num |-> 300, den |-> 1]

\* C19: with radius_m = 0 (n >= 1, the geodesic library being there) the
\* call does not fail and returns n + 1 vertices that are all the center.
C19_ZeroRadiusRingIsTheCenter ==
   (RingOver /\ has_pyproj /\ seg_n >= 1 /\ radius_m = 0) =>
      /\ pc = "returned"
      /\ Len(coords) = seg_n + 1
      /\ \A k \in 1..Len(coords) : coords[k].at = center /\ coords[k].dist = 0

C19_Witness ==
   /\ pc = "returned"
   /\ radius_m = 0
   /\ seg_n = 3
   /\ Len(coords) = 4
   /\ coords[3].at = center

(* ------------------ the sample data's conservative ring ---------------- *)

\* a non-negative rational number of meters to the nearest whole meter
NearestMeter(r) == (2 * r.num + r.den) \div (2 * r.den)

\* the sample data: five fixes, the column sog_kn, a 30-minute threshold
SampleScenario ==
   /\ pc = "done"
   /\ times = SampleTrack
   /\ sog = SampleSog
   /\ gap_threshold = 30

\* C21 as stated: with the last fix before the gap at 12.3 kn and a gap of
\* 2.0 hours, the conservative radius is 45,601 m to the nearest meter.
C21_ConservativeRadiusIs45601 ==
   SampleScenario => NearestMeter(radius_conservative_m) = 45601

\* C21: with the last fix before the gap at 12.3 kn and a gap of 2.0 hours,
\* the conservative radius 12.3 * 2.0 * 1852 is 45,559.2 m, which is 45,559 m
\* to the nearest meter.
C21_ConservativeRadiusIs45559 ==
   SampleScenario =>
      /\ sog_kn(gap_idx) = Rat(123, 10)
      /\ gap_hours(gap_dur) = Rat(2, 1)
      /\ radius_conservative_m = Rat(227796, 5)
      /\ NearestMeter(radius_conservative_m) = 45559

C21_Witness ==
   /\ SampleScenario
   /\ gap_idx = 2
   /\ radius_conservative_m = [num |-> 227796, den |-> 5]

(* ------------------- PoliumMap: one drawing call on a new map ---------- *)
(* A frame is its set of column names and its rows as df.to_dicts() gives  *)
(* them.  Coordinates in a frame are whole degrees; a location is a pair   *)
(* <<lat, lon>> of exact rational numbers, as a column mean need not be    *)
(* whole.  A center that was not passed (None) is the empty tuple.         *)

MaxRows == 2

\* the frames handed to the drawing calls: a latitude or longitude cell holds
\* 0 or 10, a geometry cell an open ring of [lon, lat] pairs, every other
\* cell 0; a frame without columns has no rows
Frames ==
   UNION { { [columns |-> cs, rows |-> rs] :
               rs \in UNION { [1..h -> { [ c \in cs |->
                                             IF c = "lat" THEN v[1]
                                             ELSE IF c = "lon" THEN v[2]
                                             ELSE IF c = "geometry"
                                                  THEN << <<0, 0>>, <<10, 0>>, <<0, 10>> >>
                                             ELSE 0 ] : v \in {0, 10} \X {0, 10} }] :
                                h \in 0..(IF cs = {} THEN 0 ELSE MaxRows) } } :
           cs \in { {"lat", "lon"}, {"lat", "lon", "time"}, {"lat"}, {"lon"}, {"h3"},
                    {"geometry"}, {} } }

\* the arguments lat and lon: the defaults, and names no frame has
LatLonArgs == { <<"lat", "lon">>, <<"latitude", "longitude">> }

\* [0.0, 0.0]
ZeroLocation == <<Rat(0, 1), Rat(0, 1)>>

\* the exceptions of the drawing calls, by what their message quotes: column
\* names, or a library and the command that installs it
KeyError(names) == [type |-> "KeyError", mentions |-> names]
NotInstalled(lib, install) == [type |-> "RuntimeError", mentions |-> {lib, install}]

\* _ensure_latlon raises
ensure_latlon(df, lat, lon) == lat \notin df.columns \/ lon \notin df.columns

RECURSIVE ColumnSum(_, _)
ColumnSum(rows, col) ==
   IF rows = <<>> THEN 0 ELSE rows[1][col] + ColumnSum(Tail(rows), col)

\* _infer_center of a frame with rows
infer_center(df, lat, lon) ==
   << Rat(ColumnSum(df.rows, lat), Len(df.rows)), Rat(ColumnSum(df.rows, lon), Len(df.rows)) >>

\* the pairs (row[first], row[second]) of the rows in order
Points(df, first, second) ==
   [ i \in 1..Len(df.rows) |-> <<df.rows[i][first], df.rows[i][second]>> ]

\* a row is read at a column the frame does not have: the first such column
MissingRead(df, cols) ==
   IF df.rows # <<>> /\ \E i \in 1..Len(cols) : cols[i] \notin df.columns
   THEN { cols[Min({ i \in 1..Len(cols) : cols[i] \notin df.columns })] }
   ELSE {}

Layer(kind, name, points) == [kind |-> kind, name |-> name, points |-> points]

\* what a call ends with: the exception it raises, if any, and the location
\* and the layers of the map
Outcome(e, loc, lay) == [err |-> e, location |-> loc, layers |-> lay]

\* add_dots or add_points (value is None): check, infer, one group of markers
add_markers(name, loc, lay, df, lat, lon) ==
   IF ensure_latlon(df, lat, lon) THEN Outcome(KeyError({lat, lon}), loc, lay)
   ELSE IF MissingRead(df, <<lat, lon>>) # {}
        THEN Outcome(KeyError(MissingRead(df, <<lat, lon>>)), loc, lay)
   ELSE Outcome(NoError, IF loc = ZeroLocation /\ Len(df.rows) # 0
                 THEN infer_center(df, lat, lon) ELSE loc,
                 Append(lay, Layer("FeatureGroup", name, Points(df, lat, lon))))

\* PoliumMap(tiles, center=...) with center None, (0.0, 0.0) or (10.0, 20.0):
\* the map right after __post_init__
InitMap ==
   /\ has_pyproj \in BOOLEAN
   /\ has_h3 \in BOOLEAN
   /\ map_center \in { <<>>, <<Rat(0, 1), Rat(0, 1)>>, <<Rat(10, 1), Rat(20, 1)>> }
   /\ location = IF map_center # <<>> THEN map_center ELSE ZeroLocation
   /\ layers = <<>>
   /\ args = <<>>
   /\ pc = "ready"
   /\ err = NoError
   /\ last = "init"
   /\ doc = <<>> /\ cfg = None /\ html = <<>> /\ key = 0 /\ pending = <<>>
   /\ out = NoFile /\ snap = <<>>
   /\ center = None /\ radius_m = 0 /\ seg_n = 0 /\ az = None /\ coords = <<>>
   /\ GapIdle /\ FetchIdle

\* one method call with arguments a and outcome r
Call(name, a, r) ==
   /\ pc = "ready"
   /\ args' = a
   /\ last' = name
   /\ err' = r.err
   /\ location' = r.location
   /\ layers' = r.layers
   /\ pc' = IF r.err.type = "none" THEN "returned" ELSE "raised"
   /\ UNCHANGED <<has_h3, map_center, rewriterVars, gapVars, ringVars, fetchVars>>

\* add_dots that asks for the geodesic library before anything else
AddDotsNeedingPyproj ==
   \E df \in Frames, a \in LatLonArgs :
      Call("add_dots", [df |-> df, lat |-> a[1], lon |-> a[2]],
           IF ~has_pyproj
           THEN Outcome(NotInstalled("pyproj", "pip install pyproj"), location, layers)
           ELSE add_markers("dots", location, layers, df, a[1], a[2]))

AddDots ==
   \E df \in Frames, a \in LatLonArgs :
      Call("add_dots", [df |-> df, lat |-> a[1], lon |-> a[2]],
           add_markers("dots", location, layers, df, a[1], a[2]))

AddPoints ==
   \E df \in Frames, a \in LatLonArgs :
      Call("add_points", [df |-> df, lat |-> a[1], lon |-> a[2]],
           add_markers("points", location, layers, df, a[1], a[2]))

\* add_time_points: check, one feature per row at [lon, lat], one layer; the
\* argument name is not used and the layer gets no name
AddTimePoints ==
   \E df \in Frames, a \in LatLonArgs :
      Call("add_time_points", [df |-> df, time |-> "time", lat |-> a[1], lon |-> a[2]],
           IF ensure_latlon(df, a[1], a[2])
           THEN Outcome(KeyError({a[1], a[2]}), location, layers)
           ELSE IF MissingRead(df, <<"time", a[2], a[1]>>) # {}
                THEN Outcome(KeyError(MissingRead(df, <<"time", a[2], a[1]>>)), location,
                             layers)
           ELSE Outcome(NoError, location,
                        Append(layers, Layer("TimestampedGeoJson", "",
                                             Points(df, a[2], a[1])))))

\* add_track: check, nothing for no rows, else the line and its two endpoints
AddTrack ==
   \E df \in Frames, a \in LatLonArgs :
      Call("add_track", [df |-> df, lat |-> a[1], lon |-> a[2]],
           IF ensure_latlon(df, a[1], a[2])
           THEN Outcome(KeyError({a[1], a[2]}), location, layers)
           ELSE IF MissingRead(df, <<a[1], a[2]>>) # {}
                THEN Outcome(KeyError(MissingRead(df, <<a[1], a[2]>>)), location, layers)
           ELSE IF df.rows = <<>> THEN Outcome(NoError, location, layers)
           ELSE Outcome(NoError, location,
                   layers \o
                   << Layer("PolyLine", "track", Points(df, a[1], a[2])),
                      Layer("CircleMarker", "", <<Points(df, a[1], a[2])[1]>>),
                      Layer("CircleMarker", "", <<Points(df, a[1], a[2])[Len(df.rows)]>>) >>))

\* add_choropleth (value is None): the column, then one polygon per row, its
\* ring closed by _to_geojson_geom when the first and last pairs differ
AddChoropleth ==
   \E df \in Frames :
      Call("add_choropleth", [df |-> df, geometry |-> "geometry"],
           IF "geometry" \notin df.columns
           THEN Outcome(KeyError({"geometry"}), location, layers)
           ELSE Outcome(NoError, location,
                   Append(layers,
                      Layer("GeoJson", "choropleth",
                            [ i \in 1..Len(df.rows) |->
                                 IF df.rows[i]["geometry"][1]
                                       # df.rows[i]["geometry"][Len(df.rows[i]["geometry"])]
                                 THEN Append(df.rows[i]["geometry"], df.rows[i]["geometry"][1])
                                 ELSE df.rows[i]["geometry"] ]))))

\* add_h3_hexes (value is None): the library, the column, one polygon per cell
AddH3Hexes ==
   \E df \in Frames :
      Call("add_h3_hexes", [df |-> df, h3_col |-> "h3"],
           IF ~has_h3
           THEN Outcome(NotInstalled("h3", "pip install 'h3>=4,<5'"), location, layers)
           ELSE IF "h3" \notin df.columns THEN Outcome(KeyError({"h3"}), location, layers)
           ELSE Outcome(NoError, location,
                        Append(layers, Layer("GeoJson", "h3",
                                             [ i \in 1..Len(df.rows) |-> df.rows[i]["h3"] ]))))

\* add_range_ring with n >= 1: the ring of _geodesic_circle, then the center dot
AddRangeRing ==
   \E c \in Centers, r \in RadiiM, n \in { 4, 256 } :
      Call("add_range_ring", [center |-> c, radius_m |-> r, n |-> n],
           IF ~has_pyproj
           THEN Outcome(NotInstalled("pyproj", "pip install pyproj"), location, layers)
           ELSE Outcome(NoError, location,
                   layers \o << Layer("GeoJson", "range", geodesic_circle(c, r, n)),
                                Layer("CircleMarker", "", << <<c.lat, c.lon>> >>) >>))

\* add_layer_control: the control is added to the map
AddLayerControl ==
   \E collapsed \in BOOLEAN :
      Call("add_layer_control", [collapsed |-> collapsed],
           Outcome(NoError, location, Append(layers, Layer("LayerControl", "", <<>>))))

NextMap ==
   \/ AddDots \/ AddPoints \/ AddTimePoints \/ AddChoropleth \/ AddH3Hexes \/ AddTrack
   \/ AddRangeRing \/ AddLayerControl

SpecMap == InitMap /\ [][NextMap]_vars

\* the calls that read the latitude and longitude columns of a frame
LatLonCalls == { "add_dots", "add_points", "add_time_points", "add_track" }

\* the map as __post_init__ left it
Untouched ==
   /\ layers = <<>>
   /\ location = IF map_center # <<>> THEN map_center ELSE ZeroLocation

\* the latitude and longitude columns that the call names and the frame lacks
MissingCoordinates == { args.lat, args.lon } \ args.df.columns

\* the columns that the call names and the frame lacks: latitude, longitude
\* and, for add_time_points, the time column
MissingRequired ==
   ({ args.lat, args.lon } \cup (IF last = "add_time_points" THEN { args.time } ELSE {}))
      \ args.df.columns

\* C22: add_dots, add_points, add_time_points and add_track called with a
\* frame that lacks a column they require raise an error whose message quotes
\* a missing column name, and leave the map as it was: no layer is added and
\* the location is not changed.
C22_MissingRequiredColumnFailsFast ==
   (pc \in {"returned", "raised"} /\ last \in LatLonCalls /\ MissingRequired # {}) =>
      /\ pc = "raised"
      /\ err.type = "KeyError"
      /\ err.mentions \cap MissingRequired # {}
      /\ Untouched

\* C23: importing the module and constructing a map fail for no missing
\* optional library; add_h3_hexes without h3 and add_range_ring without
\* pyproj raise an error that names the library and how to install it; the
\* calls that need neither library never raise that error and, given the
\* columns they read, return whichever libraries are missing
\* (add_layer_control always, add_choropleth given its geometry column).
C23_CapabilityFailsOnlyAtPointOfUse ==
   /\ pc = "ready" => err.type = "none"
   /\ (pc \in {"returned", "raised"} /\ last = "add_h3_hexes" /\ ~has_h3) =>
         /\ pc = "raised"
         /\ err.type = "RuntimeError"
         /\ {"h3", "pip install 'h3>=4,<5'"} \subseteq err.mentions
         /\ Untouched
   /\ (pc \in {"returned", "raised"} /\ last = "add_range_ring" /\ ~has_pyproj) =>
         /\ pc = "raised"
         /\ err.type = "RuntimeError"
         /\ {"pyproj", "pip install pyproj"} \subseteq err.mentions
         /\ Untouched
   /\ (pc \in {"returned", "raised"} /\ last = "add_h3_hexes" /\ has_h3) =>
         err.type # "RuntimeError"
   /\ (pc \in {"returned", "raised"} /\ last = "add_range_ring" /\ has_pyproj) =>
         pc = "returned"
   /\ (pc \in {"returned", "raised"} /\ last \in LatLonCalls) =>
         /\ err.type # "RuntimeError"
         /\ ( /\ MissingCoordinates = {}
              /\ (last = "add_time_points" /\ args.df.rows # <<>>) => "time" \in args.df.columns )
            => pc = "returned"
   /\ (pc \in {"returned", "raised"} /\ last = "add_layer_control") => pc = "returned"
   /\ (pc \in {"returned", "raised"} /\ last = "add_choropleth") =>
         /\ err.type # "RuntimeError"
         /\ "geometry" \in args.df.columns => pc = "returned"

C23_Witness ==
   /\ pc = "raised"
   /\ last = "add_h3_hexes"
   /\ ~has_h3
   /\ ~has_pyproj
   /\ "h3" \in args.df.columns
   /\ err.type = "RuntimeError"

\* C27: a center passed to PoliumMap is still the map's location after
\* add_dots or add_points, whatever the center is, (0.0, 0.0) included.
C27_ExplicitCenterNeverReplaced ==
   (pc = "returned" /\ last \in {"add_dots", "add_points"} /\ map_center # <<>>) =>
      location = map_center

(* ---------------- inline mode: what one replacement may touch ---------- *)

\* the tag-open literal nearest before the match opens a tag that is still
\* open where the match starts: the matched URL is inside that tag
OpenTagHoldsMatch(t, k, m) ==
   /\ rfind(t, OpenLit(k), m.start) # -1
   /\ ~\E o \in Occurrences(t, ">") : rfind(t, OpenLit(k), m.start) <= o /\ o < m.start

\* C24: the replacement made for one matched URL changes only the script or
\* link tag that holds the URL; for a matched URL that no such tag holds (it
\* stands in running text or in another element, after a tag that is already
\* closed) every character of the document is preserved.
C24_OnlyTheTagHoldingTheUrlChanges ==
   [][ ( /\ pc = "embed_match"
         /\ pending # <<>>
         /\ last = "matches"
         /\ ~OpenTagHoldsMatch(html, Keys[key], Head(pending)) )
       => html' = html ]_vars

(* ------------------ save() over an artifact saved before --------------- *)

MaxResaveElems == 2

\* save(path, ...) when the file at path does not exist yet, or holds the
\* text "x" of an earlier save
InitResave ==
   /\ doc \in DocsOf(ElemsSave, MaxResaveElems)
   /\ cfg \in ConfigsSave
   /\ html = <<>>
   /\ pc = "ready"
   /\ key = 0
   /\ pending = <<>>
   /\ out \in { NoFile, [exists |-> TRUE, text |-> <<"x">>] }
   /\ err = NoError
   /\ snap = <<>>
   /\ last = "init"
   /\ GapIdle /\ RingIdle /\ MapIdle /\ FetchIdle

SpecResave == InitResave /\ [][Next]_vars

\* C25: a save() that fails its strict verification neither creates nor
\* changes the file at the path: an artifact saved there before is as it was.
C25_StrictFailureLeavesFileAlone ==
   [][ (pc' = "raised" /\ err'.type = "RuntimeError") => out' = out ]_vars

C25_Witness ==
   /\ pc = "raised"
   /\ cfg.strict_offline
   /\ err.type = "RuntimeError"
   /\ out = [exists |-> TRUE, text |-> <<"x">>]
   /\ html # out.text

(* ------------------- strict verification and URL hosts ----------------- *)

\* the host part of a token that begins a URL
Host(u) ==
   CASE u = "http://127.0.0.1:8080/tiles/{z}/{x}/{y}.png" -> "127.0.0.1"
     [] u = "https://127.0.0.1:8080/x.js" -> "127.0.0.1"
     [] u = "http://localhost.example.com/x.js" -> "localhost.example.com"
     [] u = "https://example.com/x.js" -> "example.com"
     [] u = "https://tile.openstreetmap.org/{z}/{x}/{y}.png" -> "tile.openstreetmap.org"
     [] u = "https://cdn.jsdelivr.net/npm/leaflet@" -> "cdn.jsdelivr.net"
     [] u = "https://code.jquery.com/jquery-" -> "code.jquery.com"

\* C26: a save() with strict_offline that passes has exempted only URLs
\* whose host is exactly 127.0.0.1 or localhost: no quoted URL whose host
\* merely begins with those characters is left in what it writes.
C26_OnlyExactLoopbackHostIsExempt ==
   (pc = "returned" /\ cfg.strict_offline) =>
      \A i \in 1..Len(UrlLiterals(html, 1)) :
         Host(Head(UrlLiterals(html, 1)[i])) \in { "127.0.0.1", "localhost" }

(* ------------------- fetch_map_assets.py: runs of main ----------------- *)
(* A destination file is "absent", or holds nothing ("empty"), a part of   *)
(* the asset ("partial") or all of it ("complete").  urlopen, r.read and   *)
(* f.write can each fail; an exception that download() does not catch and  *)
(* an interrupt end the run.  Every run of a behaviour has the same        *)
(* command line.                                                           *)

MaxRuns == 2

\* the first names of the plan, in the order of CORE_ASSETS
Plan == <<"leaflet.js", "leaflet.css">>

\* a new destination directory; the script has not been started
InitFetch ==
   /\ files = [ f \in { Plan[i] : i \in 1..Len(Plan) } |-> "absent" ]
   /\ force \in BOOLEAN
   /\ nrun = 0
   /\ pos = 0
   /\ failures = <<>>
   /\ msg = [text |-> "", name |-> ""]
   /\ rc = None
   /\ pc = "shell"
   /\ err = NoError
   /\ last = "init"
   /\ doc = <<>> /\ cfg = None /\ html = <<>> /\ key = 0 /\ pending = <<>>
   /\ out = NoFile /\ snap = <<>>
   /\ GapIdle /\ RingIdle /\ MapIdle

\* lines 88-98: the script is started and main reaches its loop
StartRun ==
   /\ pc = "shell"
   /\ nrun < MaxRuns
   /\ nrun' = nrun + 1
   /\ pos' = 1
   /\ failures' = <<>>
   /\ rc' = None
   /\ err' = NoError
   /\ pc' = "loop"
   /\ last' = "start"
   /\ UNCHANGED <<files, force, msg, rewriterVars, gapVars, ringVars, mapVars>>

\* lines 99-103 and 57-62: the next asset of the plan.  It is skipped when
\* its file exists; else urlopen fails with an error download() reports, or
\* raises an exception download() does not catch (the connection is closed or
\* times out before an answer) and the run ends, or succeeds and
\* open(dest, "wb") leaves the file there with nothing in it
Attempt ==
   /\ pc = "loop"
   /\ pos <= Len(Plan)
   /\ IF files[Plan[pos]] # "absent" /\ ~force
      THEN /\ msg' = [text |-> "skip (exists)", name |-> Plan[pos]]
           /\ pos' = pos + 1
           /\ UNCHANGED <<files, failures, pc, rc, err>>
      ELSE \E o \in { "ok", "HTTP", "URL error", "raises" } :
              CASE o = "ok" ->
                      /\ files' = [files EXCEPT ![Plan[pos]] = "empty"]
                      /\ pc' = "opened"
                      /\ UNCHANGED <<msg, pos, failures, rc, err>>
                [] o = "raises" ->
                      /\ err' = [type |-> "OSError", urls |-> <<>>]
                      /\ rc' = 1
                      /\ pc' = "shell"
                      /\ UNCHANGED <<files, msg, pos, failures>>
                [] OTHER ->
                      /\ msg' = [text |-> o, name |-> Plan[pos]]
                      /\ failures' = Append(failures, Plan[pos])
                      /\ pos' = pos + 1
                      /\ UNCHANGED <<files, pc, rc, err>>
   /\ last' = "attempt"
   /\ UNCHANGED <<force, nrun, rewriterVars, gapVars, ringVars, mapVars>>

\* lines 63-64: r.read() and f.write(data), then the file is closed.  Both
\* succeed, or r.read raises (the connection is lost) with nothing written,
\* or f.write raises (the disk is full) with a part written; neither
\* exception is caught
Transfer ==
   /\ pc = "opened"
   /\ \E o \in { "ok", "read raises", "write raises" } :
         IF o = "ok"
         THEN /\ files' = [files EXCEPT ![Plan[pos]] = "complete"]
              /\ pc' = "written"
              /\ UNCHANGED <<rc, err>>
         ELSE /\ files' = [files EXCEPT ![Plan[pos]] =
                             IF o = "read raises" THEN "empty" ELSE "partial"]
              /\ err' = [type |-> "OSError", urls |-> <<>>]
              /\ rc' = 1
              /\ pc' = "shell"
   /\ last' = "transfer"
   /\ UNCHANGED <<force, nrun, pos, failures, msg, rewriterVars, gapVars, ringVars,
                  mapVars>>

\* lines 65 and 100-103: download() returns its "ok" line, main prints it and
\* goes on with the next asset
Report ==
   /\ pc = "written"
   /\ msg' = [text |-> "ok", name |-> Plan[pos]]
   /\ pos' = pos + 1
   /\ pc' = "loop"
   /\ last' = "report"
   /\ UNCHANGED <<files, force, nrun, failures, rc, err, rewriterVars, gapVars, ringVars,
                  mapVars>>

\* the run is interrupted from the keyboard: between two assets, while the
\* file is open and empty, or after it was written and before main is told
Interrupt ==
   /\ pc \in { "loop", "opened", "written" }
   /\ err' = [type |-> "KeyboardInterrupt", urls |-> <<>>]
   /\ rc' = 130
   /\ pc' = "shell"
   /\ last' = "interrupt"
   /\ UNCHANGED <<files, force, nrun, pos, failures, msg, rewriterVars, gapVars, ringVars,
                  mapVars>>

\* lines 105-111: the plan is exhausted and main returns
EndRun ==
   /\ pc = "loop"
   /\ pos > Len(Plan)
   /\ rc' = IF failures # <<>> THEN 2 ELSE 0
   /\ pc' = "shell"
   /\ last' = "end"
   /\ UNCHANGED <<files, force, nrun, pos, failures, msg, err, rewriterVars, gapVars,
                  ringVars, mapVars>>

NextFetch == StartRun \/ Attempt \/ Transfer \/ Report \/ Interrupt \/ EndRun

SpecFetch == InitFetch /\ [][NextFetch]_vars

\* C28: without --force, whenever no download is under way every destination
\* file that exists holds the whole asset, and "skip (exists)" is reported
\* only for a file that holds the whole asset.
C28_FileExistsOnlyIfFullyDownloaded ==
   ~force =>
      /\ pc \in { "shell", "loop" } =>
            \A i \in 1..Len(Plan) : files[Plan[i]] \in { "absent", "complete" }
      /\ msg.text = "skip (exists)" => files[msg.name] = "complete"

====
